---- MODULE Spec2Model ----
(***************************************************************************)
(* Model of neurophox/torch/generic.py: PermutationLayer,                  *)
(* MeshVerticalLayer, MeshParamTorch, MeshPhasesTorch, MeshTorch and       *)
(* MeshTorchLayer, with the complex-pair helpers cc_mul, rc_mul, s_mul     *)
(* and conj_t.                                                             *)
(*                                                                         *)
(* Numbers.  Tensor elements are real numbers; the model computes them     *)
(* exactly in the ring Z[sqrt 2][1/2]: a real is [a, b, e] standing for    *)
(* (a + b*sqrt(2)) / 2^e, kept normalised.  Angles are integers counting   *)
(* eighths of a turn (pi/4), so cos and sin are exact table lookups and    *)
(* the division by two of the differential arrangement stays exact for    *)
(* the even raw angles the inputs are drawn from.  Floating-point rounding *)
(* is not modelled.  A complex tensor is the pair [re, im] of the code's   *)
(* leading axis of size 2; a vector is a function on 0..n-1.               *)
(***************************************************************************)
EXTENDS Integers, FiniteSets, Sequences, TLC

-----------------------------------------------------------------------------
(* Bounds *)
MaxUnits == 3
MaxLayers == 2

-----------------------------------------------------------------------------
(* Exact reals (a + b*sqrt 2) / 2^e *)
RECURSIVE Pow2(_)
Pow2(n) == IF n = 0 THEN 1 ELSE 2 * Pow2(n - 1)

RECURSIVE RNorm(_, _, _)
RNorm(a, b, e) ==
  IF e > 0 /\ a % 2 = 0 /\ b % 2 = 0
  THEN RNorm(a \div 2, b \div 2, e - 1)
  ELSE [a |-> a, b |-> b, e |-> e]

RInt(n) == [a |-> n, b |-> 0, e |-> 0]
RMaxE(x, y) == IF x.e > y.e THEN x.e ELSE y.e
RAdd(x, y) ==
  LET e == RMaxE(x, y)
  IN RNorm(x.a * Pow2(e - x.e) + y.a * Pow2(e - y.e),
           x.b * Pow2(e - x.e) + y.b * Pow2(e - y.e), e)
RNeg(x) == [a |-> 0 - x.a, b |-> 0 - x.b, e |-> x.e]
RSub(x, y) == RAdd(x, RNeg(y))
RMul(x, y) == RNorm(x.a * y.a + 2 * x.b * y.b, x.a * y.b + x.b * y.a, x.e + y.e)
RHalf(x) == RNorm(x.a, x.b, x.e + 1)

RZero == RInt(0)
ROne == RInt(1)
RInvSqrt2 == [a |-> 0, b |-> 1, e |-> 1]

(* cos and sin of k eighths of a turn *)
Cos8(k) ==
  LET r == k % 8
  IN CASE r = 0 -> ROne
       [] r = 1 -> RInvSqrt2
       [] r = 2 -> RZero
       [] r = 3 -> RNeg(RInvSqrt2)
       [] r = 4 -> RInt(-1)
       [] r = 5 -> RNeg(RInvSqrt2)
       [] r = 6 -> RZero
       [] r = 7 -> RInvSqrt2
Sin8(k) == Cos8(k - 2)

(* pi, in eighths of a turn *)
PI == 4

-----------------------------------------------------------------------------
(* Complex pairs: comp[0] is .re, comp[1] is .im *)
Cx(re, im) == [re |-> re, im |-> im]
CZero == Cx(RZero, RZero)
COne == Cx(ROne, RZero)
CI == Cx(RZero, ROne)
CAdd(x, y) == Cx(RAdd(x.re, y.re), RAdd(x.im, y.im))
CNeg(x) == Cx(RNeg(x.re), RNeg(x.im))
CSub(x, y) == CAdd(x, CNeg(y))
CHalf(x) == Cx(RHalf(x.re), RHalf(x.im))

(* one element of cc_mul: real = c1[0]*c2[0] - c1[1]*c2[1],               *)
(*                        comp = c1[0]*c2[1] + c1[1]*c2[0]                *)
CMul(comp1, comp2) ==
  Cx(RSub(RMul(comp1.re, comp2.re), RMul(comp1.im, comp2.im)),
     RAdd(RMul(comp1.re, comp2.im), RMul(comp1.im, comp2.re)))

(* one element of conj_t: stack((comp[0], -comp[1])) *)
CConj(comp) == Cx(comp.re, RNeg(comp.im))

(* rc_mul: real.unsqueeze(0) * comp, elementwise *)
rc_mul(real, comp) == Cx(RMul(real, comp.re), RMul(real, comp.im))

(* s_mul: s.real * comp + stack((-s.imag * comp[1], s.imag * comp[0])) *)
s_mul(s, comp) ==
  Cx(RAdd(RMul(s.re, comp.re), RNeg(RMul(s.im, comp.im))),
     RAdd(RMul(s.re, comp.im), RMul(s.im, comp.re)))

(* stack((x.cos(), x.sin())) of one angle *)
CisAngle(k) == Cx(Cos8(k), Sin8(k))

-----------------------------------------------------------------------------
(* Vectors are functions on 0..n-1; the last axis of the code's tensors *)
Size(v) == Cardinality(DOMAIN v)
Idx(n) == 0 .. (n - 1)
Mod(i, n) == i % n

(* torch broadcasting of two last axes *)
CanBroadcast(m, n) == m = n \/ m = 1 \/ n = 1
BroadcastSize(m, n) == IF m = 1 THEN n ELSE m
At(v, i) == IF Size(v) = 1 THEN v[0] ELSE v[i]

(* cc_mul on vectors, with broadcasting; defined when CanBroadcast *)
cc_mul(comp1, comp2) ==
  [i \in Idx(BroadcastSize(Size(comp1), Size(comp2))) |-> CMul(At(comp1, i), At(comp2, i))]

(* conj_t on vectors *)
conj_t(comp) == [i \in DOMAIN comp |-> CConj(comp[i])]

(* u + v, with broadcasting *)
VAdd(u, v) == [i \in Idx(BroadcastSize(Size(u), Size(v))) |-> CAdd(At(u, i), At(v, i))]

(* x[..., idx]: fancy indexing of the last axis; a negative index counts   *)
(* from the end, any index outside -n..n-1 raises IndexError               *)
PyIndex(n, k) == IF k < 0 THEN k + n ELSE k
CanTake(x, idx) == \A i \in DOMAIN idx : PyIndex(Size(x), idx[i]) \in DOMAIN x
Take(x, idx) == [i \in DOMAIN idx |-> x[PyIndex(Size(x), idx[i])]]

-----------------------------------------------------------------------------
(* PermutationLayer *)

(* the loop of __init__ run to its end on a valid index array:             *)
(* inv_permuted_indices[perm_idx] = idx for idx = 0, 1, ..., later writes  *)
(* overwriting earlier ones                                                *)
(* line 69, one iteration: self.inv_permuted_indices[perm_idx] = idx *)
InvStep(permuted_indices, inv, idx) ==
  [inv EXCEPT ![PyIndex(Size(permuted_indices), permuted_indices[idx])] = idx]

RECURSIVE InvLoop(_, _, _)
InvLoop(permuted_indices, inv, idx) ==
  IF idx = Size(permuted_indices) THEN inv
  ELSE InvLoop(permuted_indices, InvStep(permuted_indices, inv, idx), idx + 1)

PermutationLayer(permuted_indices) ==
  [permuted_indices |-> permuted_indices,
   inv_permuted_indices |->
     InvLoop(permuted_indices, [i \in DOMAIN permuted_indices |-> 0], 0)]

PermTransform(layer, inputs) == Take(inputs, layer.permuted_indices)
PermInverseTransformByPerm(layer, outputs) == Take(outputs, layer.permuted_indices)
PermInverseTransform(layer, outputs) == Take(outputs, layer.inv_permuted_indices)

IsPermutation(p) ==
  /\ \A i \in DOMAIN p : p[i] \in DOMAIN p
  /\ \A i, j \in DOMAIN p : p[i] = p[j] => i = j

-----------------------------------------------------------------------------
(* Outcome of a call or of a part of one: err is "" or the exception       *)
(* raised, val the tensor computed so far, trace the primitive operations  *)
(* applied so far, in order, each with the data it used and the tensor it  *)
(* produced                                                                *)
Ok(val, trace) == [err |-> "", val |-> val, trace |-> trace]
Raise(err, trace) == [err |-> err, val |-> <<>>, trace |-> trace]
Op(op, arg, val) == [op |-> op, arg |-> arg, val |-> val]
Did(o, op, arg, val) == Ok(val, Append(o.trace, Op(op, arg, val)))

(* PermutationLayer.transform / inverse_transform on an outcome *)
StepPerm(o, perm) ==
  IF o.err # "" THEN o
  ELSE IF ~CanTake(o.val, perm.permuted_indices) THEN Raise("IndexError", o.trace)
  ELSE Did(o, "perm", perm.permuted_indices, PermTransform(perm, o.val))

StepPermInv(o, perm) ==
  IF o.err # "" THEN o
  ELSE IF ~CanTake(o.val, perm.inv_permuted_indices) THEN Raise("IndexError", o.trace)
  ELSE Did(o, "perm_inv", perm.permuted_indices, PermInverseTransform(perm, o.val))

-----------------------------------------------------------------------------
(* MeshVerticalLayer: left_perm and right_perm are <<>> (None) or <<layer>> *)
MeshVerticalLayer(pairwise_perm_idx, diag, off_diag, right_perm, left_perm) ==
  [pairwise_perm_idx |-> pairwise_perm_idx, diag |-> diag, off_diag |-> off_diag,
   right_perm |-> right_perm, left_perm |-> left_perm]

(* lines 92-94: diag_out + off_diag_out[..., pairwise_perm_idx] *)
Couple(layer, outputs) ==
  VAdd(cc_mul(outputs, layer.diag),
       Take(cc_mul(outputs, layer.off_diag), layer.pairwise_perm_idx))

(* lines 102-106 *)
CoupleInverseNoGather(layer, inputs) ==
  VAdd(cc_mul(inputs, conj_t(layer.diag)),
       Take(cc_mul(inputs, conj_t(layer.off_diag)), layer.pairwise_perm_idx))
CoupleInverse(layer, inputs) ==
  LET diag == conj_t(layer.diag)
      off_diag == conj_t(Take(layer.off_diag, layer.pairwise_perm_idx))
  IN VAdd(cc_mul(inputs, diag),
          Take(cc_mul(inputs, off_diag), layer.pairwise_perm_idx))

(* the products broadcast, the gather stays in range, the sum broadcasts *)
CanCouple(layer, v) ==
  /\ CanBroadcast(Size(v), Size(layer.diag))
  /\ \A i \in DOMAIN layer.pairwise_perm_idx :
       layer.pairwise_perm_idx[i] < BroadcastSize(Size(v), Size(layer.diag))
  /\ CanBroadcast(BroadcastSize(Size(v), Size(layer.diag)), Size(layer.pairwise_perm_idx))

StepCouple(o, layer) ==
  IF o.err # "" THEN o
  ELSE IF ~CanCouple(layer, o.val) THEN Raise("RuntimeError", o.trace)
  ELSE Did(o, "couple", <<layer.diag, layer.off_diag>>, Couple(layer, o.val))

StepCoupleInverse(o, layer) ==
  IF o.err # "" THEN o
  ELSE IF ~CanCouple(layer, o.val) THEN Raise("RuntimeError", o.trace)
  ELSE Did(o, "couple_adj", <<layer.diag, layer.off_diag>>, CoupleInverse(layer, o.val))

(* MeshVerticalLayer.transform, lines 91-96 *)
VerticalTransform(layer, o) ==
  LET a == IF layer.left_perm = <<>> THEN o ELSE StepPerm(o, layer.left_perm[1])
      b == StepCouple(a, layer)
  IN IF layer.right_perm = <<>> THEN b ELSE StepPerm(b, layer.right_perm[1])

(* MeshVerticalLayer.inverse_transform, lines 101-108 *)
VerticalInverseTransform(layer, o) ==
  LET a == IF layer.right_perm = <<>> THEN o ELSE StepPermInv(o, layer.right_perm[1])
      b == StepCoupleInverse(a, layer)
  IN IF layer.left_perm = <<>> THEN b ELSE StepPermInv(b, layer.left_perm[1])

-----------------------------------------------------------------------------
(* helpers.pairwise_off_diag_permutation: pairs path 2k with 2k+1; with an *)
(* odd number of paths the last one is paired with itself                  *)
pairwise_off_diag_permutation(units) ==
  [i \in Idx(units) |->
     IF units % 2 = 1 /\ i = units - 1 THEN i
     ELSE IF i % 2 = 0 THEN i + 1 ELSE i - 1]

(* config.BLOCH, config.SINGLEMODE *)
BLOCH == "bloch"
SINGLEMODE == "single_mode"

-----------------------------------------------------------------------------
(* MeshParamTorch: param is [num_layers][units // 2], arranged [units][num_layers] *)
single_mode_arrangement(param, units) ==
  [i \in Idx(units) |->
     [l \in DOMAIN param |->
        IF i % 2 = 0 /\ i \div 2 < units \div 2 THEN param[l][i \div 2] ELSE 0]]

(* phases.roll(1, 0): row i takes row i-1, cyclically *)
Roll1(phases) == [i \in DOMAIN phases |-> phases[Mod(i - 1, Size(phases))]]

(* phases / 2 - phases.roll(1, 0) / 2; exact here because every arranged    *)
(* angle is an even number of eighths of a turn                             *)
differential_mode_arrangement(param, units) ==
  LET phases == single_mode_arrangement(param, units)
      rolled == Roll1(phases)
  IN [i \in Idx(units) |->
        [l \in DOMAIN param |-> (phases[i][l] \div 2) - (rolled[i][l] \div 2)]]

-----------------------------------------------------------------------------
(* MeshPhasesTorch.__init__, lines 158-164 *)
MaskedParamUnmasked(param, mask, hadamard) ==
  [l \in DOMAIN param |->
     [j \in DOMAIN param[l] |-> param[l][j] + (1 - mask[l][j]) * (IF hadamard THEN 0 ELSE 1) * PI]]
MaskedParam(param, mask, hadamard) ==
  [l \in DOMAIN param |->
     [j \in DOMAIN param[l] |->
        param[l][j] * mask[l][j] + (1 - mask[l][j]) * (IF hadamard THEN 0 ELSE 1) * PI]]

MeshPhasesTorch(theta, phi, mask, gamma, units, basis, hadamard) ==
  [theta |-> MaskedParam(theta, mask, hadamard),
   phi |-> MaskedParam(phi, mask, hadamard),
   gamma |-> gamma,
   basis |-> basis,
   units |-> units,
   input_phase_shift_layer |-> [i \in DOMAIN gamma |-> CisAngle(gamma[i])]]

internal_phase_shifts(phases) ==
  IF phases.basis = BLOCH
  THEN differential_mode_arrangement(phases.theta, phases.units)
  ELSE single_mode_arrangement(phases.theta, phases.units)

external_phase_shifts(phases) == single_mode_arrangement(phases.phi, phases.units)

CisLayers(ps) == [i \in DOMAIN ps |-> [l \in DOMAIN ps[i] |-> CisAngle(ps[i][l])]]
internal_phase_shift_layers(phases) == CisLayers(internal_phase_shifts(phases))
external_phase_shift_layers(phases) == CisLayers(external_phase_shifts(phases))

-----------------------------------------------------------------------------
(* MeshTorch.__init__: what the constructor reads from the model and keeps. *)
(* self.model = model keeps a reference to the caller's object, not a copy: *)
(* the field records the object as it was, CallModel below what a later     *)
(* read of self.mesh.model sees                                             *)
MeshTorch(model) ==
  [model |-> model,
   units |-> model.units,
   num_layers |-> model.num_layers,
   pairwise_perm_idx |-> pairwise_off_diag_permutation(model.units),
   enn |-> model.enn, enp |-> model.enp, epn |-> model.epn, epp |-> model.epp,
   perm_layers |-> [layer \in Idx(model.num_layers + 1) |-> PermutationLayer(model.perm_idx[layer])]]

(* MeshTorch.mesh_layers, lines 219-237: entry [i][l] of diag_layers and   *)
(* off_diag_layers.  x.roll(-1, 1)[i] = x[i+1], x.roll(1, 1)[i] = x[i-1]   *)
S11(mesh, hadamard, ips, i, l) ==
  LET n == mesh.units
      nx == Mod(i + 1, n)
  IN IF hadamard
     THEN CAdd(rc_mul(mesh.epp[i][l], ips[i][l]), rc_mul(mesh.enn[i][l], ips[nx][l]))
     ELSE CSub(rc_mul(mesh.epp[i][l], ips[i][l]), rc_mul(mesh.enn[i][l], ips[nx][l]))

S22(mesh, hadamard, ips, i, l) ==
  LET n == mesh.units
      p == Mod(i - 1, n)
  IN IF hadamard
     THEN CAdd(rc_mul(mesh.enn[p][l], ips[p][l]), rc_mul(mesh.epp[p][l], ips[i][l]))
     ELSE CAdd(CNeg(rc_mul(mesh.enn[p][l], ips[p][l])), rc_mul(mesh.epp[p][l], ips[i][l]))

S12(mesh, hadamard, ips, i, l) ==
  LET n == mesh.units
      p == Mod(i - 1, n)
  IN IF hadamard
     THEN CSub(rc_mul(mesh.enp[p][l], ips[p][l]), rc_mul(mesh.epn[p][l], ips[i][l]))
     ELSE s_mul(CI, CAdd(rc_mul(mesh.enp[p][l], ips[p][l]), rc_mul(mesh.epn[p][l], ips[i][l])))

S21(mesh, hadamard, ips, i, l) ==
  LET n == mesh.units
      nx == Mod(i + 1, n)
  IN IF hadamard
     THEN CSub(rc_mul(mesh.epn[i][l], ips[i][l]), rc_mul(mesh.enp[i][l], ips[nx][l]))
     ELSE s_mul(CI, CAdd(rc_mul(mesh.epn[i][l], ips[i][l]), rc_mul(mesh.enp[i][l], ips[nx][l])))

DiagLayersNoIdle(mesh, hadamard, phases) ==
  LET ips == internal_phase_shift_layers(phases)
      eps == external_phase_shift_layers(phases)
  IN [l \in Idx(Size(phases.theta)) |->
        [i \in Idx(mesh.units) |->
           CHalf(CMul(eps[i][l],
                      CAdd(S11(mesh, hadamard, ips, i, l), S22(mesh, hadamard, ips, i, l))))]]
DiagLayers(mesh, hadamard, phases) ==
  LET ips == internal_phase_shift_layers(phases)
      eps == external_phase_shift_layers(phases)
  IN [l \in Idx(Size(phases.theta)) |->
        [i \in Idx(mesh.units) |->
           IF mesh.units % 2 = 1 /\ i = mesh.units - 1 THEN COne
           ELSE CHalf(CMul(eps[i][l],
                           CAdd(S11(mesh, hadamard, ips, i, l), S22(mesh, hadamard, ips, i, l))))]]

OffDiagLayers(mesh, hadamard, phases) ==
  LET ips == internal_phase_shift_layers(phases)
      eps == external_phase_shift_layers(phases)
  IN [l \in Idx(Size(phases.theta)) |->
        [i \in Idx(mesh.units) |->
           CHalf(CMul(eps[Mod(i - 1, mesh.units)][l],
                      CAdd(S21(mesh, hadamard, ips, i, l), S12(mesh, hadamard, ips, i, l))))]]

(* lines 239-245: layer 0 is built unconditionally from diag_layers[:, 0], *)
(* perm_layers[1] and perm_layers[0], which raises IndexError when there   *)
(* is no layer 0                                                           *)
MeshLayersRaises(mesh, phases) == Size(phases.theta) = 0 \/ Size(mesh.perm_layers) < 2

MeshLayersAllLeft(mesh, hadamard, phases) ==
  LET diag_layers == DiagLayers(mesh, hadamard, phases)
      off_diag_layers == OffDiagLayers(mesh, hadamard, phases)
  IN [layer \in Idx(mesh.num_layers) |->
        MeshVerticalLayer(mesh.pairwise_perm_idx, diag_layers[layer], off_diag_layers[layer],
                          <<mesh.perm_layers[layer + 1]>>, <<mesh.perm_layers[layer]>>)]
mesh_layers(mesh, hadamard, phases) ==
  LET diag_layers == DiagLayers(mesh, hadamard, phases)
      off_diag_layers == OffDiagLayers(mesh, hadamard, phases)
  IN [layer \in Idx(mesh.num_layers) |->
        IF layer = 0
        THEN MeshVerticalLayer(mesh.pairwise_perm_idx, diag_layers[0], off_diag_layers[0],
                               <<mesh.perm_layers[1]>>, <<mesh.perm_layers[0]>>)
        ELSE MeshVerticalLayer(mesh.pairwise_perm_idx, diag_layers[layer],
                               off_diag_layers[layer], <<mesh.perm_layers[layer + 1]>>, <<>>)]

-----------------------------------------------------------------------------
(* MeshTorchLayer: self.mesh, self.units, self.num_layers are fixed by the *)
(* constructor; theta, phi, gamma and self.mesh.model are read per call    *)
StepPhase(o, psl) ==
  IF ~CanBroadcast(Size(o.val), Size(psl)) THEN Raise("RuntimeError", o.trace)
  ELSE Did(o, "phase", psl, cc_mul(o.val, psl))

StepPhaseConjPlain(o, psl) ==
  IF o.err # "" THEN o
  ELSE IF ~CanBroadcast(Size(o.val), Size(psl)) THEN Raise("RuntimeError", o.trace)
  ELSE Did(o, "phase_conj", psl, cc_mul(o.val, psl))
StepPhaseConj(o, psl) ==
  IF o.err # "" THEN o
  ELSE IF ~CanBroadcast(Size(o.val), Size(psl)) THEN Raise("RuntimeError", o.trace)
  ELSE Did(o, "phase_conj", psl, cc_mul(o.val, conj_t(psl)))

(* for layer in range(self.num_layers): outputs = mesh_layers[layer].transform(outputs) *)
RECURSIVE ForwardFrom(_, _, _, _)
ForwardFrom(layers, layer, num_layers, o) ==
  IF layer = num_layers THEN o
  ELSE ForwardFrom(layers, layer + 1, num_layers, VerticalTransform(layers[layer], o))

(* for layer in reversed(range(self.num_layers)): ... inverse_transform(inputs) *)
RECURSIVE BackwardFrom(_, _, _)
BackwardFrom(layers, layer, o) ==
  IF layer = 0 THEN o
  ELSE BackwardFrom(layers, layer - 1, VerticalInverseTransform(layers[layer - 1], o))

(* self.mesh.model, read during a call: the model object as it is now *)
CallModelAtConstruction(lyr) == lyr.mesh.model
CallModel(lyr) == lyr.model

CallPhases(lyr) ==
  MeshPhasesTorch(lyr.theta, lyr.phi, CallModel(lyr).mask, lyr.gamma, lyr.mesh.units,
                  CallModel(lyr).basis, CallModel(lyr).hadamard)

(* MeshTorchLayer.transform, lines 263-278 *)
MeshTransform(lyr, inputs) ==
  LET mesh_phases == CallPhases(lyr)
  IN IF MeshLayersRaises(lyr.mesh, mesh_phases) THEN Raise("IndexError", <<>>)
     ELSE ForwardFrom(mesh_layers(lyr.mesh, CallModel(lyr).hadamard, mesh_phases), 0,
                      lyr.mesh.num_layers,
                      StepPhase(Ok(inputs, <<>>), mesh_phases.input_phase_shift_layer))

(* MeshTorchLayer.inverse_transform, lines 281-295 *)
MeshInverseTransform(lyr, outputs) ==
  LET mesh_phases == CallPhases(lyr)
  IN IF MeshLayersRaises(lyr.mesh, mesh_phases) THEN Raise("IndexError", <<>>)
     ELSE StepPhaseConj(
            BackwardFrom(mesh_layers(lyr.mesh, CallModel(lyr).hadamard, mesh_phases),
                         lyr.mesh.num_layers, Ok(outputs, <<>>)),
            mesh_phases.input_phase_shift_layer)

(* MeshTorchLayer.__init__: the mesh is built from the model once *)
MeshTorchLayer(model, theta, phi, gamma) ==
  [mesh |-> MeshTorch(model), model |-> model, theta |-> theta, phi |-> phi, gamma |-> gamma]

-----------------------------------------------------------------------------
(* Inputs: the MeshModel handed to the constructor, the parameters its     *)
(* init() returns, and the tensors passed to the calls                     *)

(* one coefficient per cell, on the cell's even path (a stripe array) *)
StripeOf(units, num_layers, v) ==
  [i \in Idx(units) |->
     [l \in Idx(num_layers) |-> IF i % 2 = 0 /\ i \div 2 < units \div 2 THEN v ELSE RZero]]
(* a scalar, broadcast over paths and layers *)
UniformOf(units, num_layers, v) == [i \in Idx(units) |-> [l \in Idx(num_layers) |-> v]]

RSqrt2 == [a |-> 0, b |-> 1, e |-> 0]
StripeKinds == {"ideal", "unbalanced", "lossy"}
ErrorKinds == StripeKinds \cup {"uniform"}
ErrorTensors(kind, units, num_layers) ==
  CASE kind = "ideal" ->
         [enn |-> StripeOf(units, num_layers, ROne), enp |-> StripeOf(units, num_layers, ROne),
          epn |-> StripeOf(units, num_layers, ROne), epp |-> StripeOf(units, num_layers, ROne)]
    [] kind = "unbalanced" ->
         [enn |-> StripeOf(units, num_layers, RZero), enp |-> StripeOf(units, num_layers, RZero),
          epn |-> StripeOf(units, num_layers, RSqrt2), epp |-> StripeOf(units, num_layers, RSqrt2)]
    [] kind = "lossy" ->
         [enn |-> StripeOf(units, num_layers, ROne), enp |-> StripeOf(units, num_layers, RZero),
          epn |-> StripeOf(units, num_layers, RZero), epp |-> StripeOf(units, num_layers, ROne)]
    [] kind = "uniform" ->
         [enn |-> UniformOf(units, num_layers, ROne), enp |-> UniformOf(units, num_layers, ROne),
          epn |-> UniformOf(units, num_layers, ROne), epp |-> UniformOf(units, num_layers, ROne)]

(* wiring: every stage straight through, or stage k a cyclic shift by k+1 *)
PermKinds == {"straight", "shift"}
PermIdx(kind, units, num_layers) ==
  [k \in Idx(num_layers + 1) |->
     [i \in Idx(units) |-> IF kind = "straight" THEN i ELSE Mod(i + k + 1, units)]]

(* mask over the cells [num_layers][units // 2] *)
MaskKinds == {"active", "checker"}
MaskOf(kind, units, num_layers) ==
  [l \in Idx(num_layers) |->
     [j \in Idx(units \div 2) |->
        IF kind = "active" THEN 1 ELSE (l + j) % 2]]

MeshModel(units, num_layers, basis, hadamard, errors, perms, mask) ==
  [units |-> units, num_layers |-> num_layers, basis |-> basis, hadamard |-> hadamard,
   mask |-> MaskOf(mask, units, num_layers),
   perm_idx |-> PermIdx(perms, units, num_layers),
   enn |-> ErrorTensors(errors, units, num_layers).enn,
   enp |-> ErrorTensors(errors, units, num_layers).enp,
   epn |-> ErrorTensors(errors, units, num_layers).epn,
   epp |-> ErrorTensors(errors, units, num_layers).epp]

(* models whose error tensors are stripe arrays *)
Models ==
  {MeshModel(n, L, b, h, e, p, m) :
     n \in 1 .. MaxUnits, L \in 0 .. MaxLayers, b \in {BLOCH, SINGLEMODE}, h \in BOOLEAN,
     e \in StripeKinds, p \in PermKinds, m \in MaskKinds}

(* models whose error tensors are stripe arrays or broadcast scalars *)
BroadcastModels ==
  {MeshModel(n, L, b, h, e, "shift", "checker") :
     n \in 1 .. MaxUnits, L \in 0 .. MaxLayers, b \in {BLOCH, SINGLEMODE}, h \in BOOLEAN,
     e \in {"ideal", "uniform"}}

(* raw angles, in eighths of a turn: quarter turns, varying from cell to cell *)
ParamKinds == {"quarter", "graded"}
CellAngles(kind, units, num_layers, shift) ==
  [l \in Idx(num_layers) |->
     [j \in Idx(units \div 2) |->
        IF kind = "quarter" THEN 2 ELSE 2 * ((l + 2 * j + shift) % 4)]]
PathAngles(kind, units) ==
  [i \in Idx(units) |-> IF kind = "quarter" THEN 2 * (i % 4) ELSE 0]

(* tensors handed to transform / inverse_transform *)
E(n, k) == [i \in Idx(n) |-> IF i = k THEN COne ELSE CZero]
Mixed(n) == [i \in Idx(n) |-> Cx(RInt(i + 1), RInt(1 - i))]
BasisInputs(n) == {E(n, k) : k \in Idx(n)}
Inputs(n) == {E(n, 0)} \cup {Mixed(m) : m \in {k \in {1, n - 1, n, n + 1} : k >= 1}}

-----------------------------------------------------------------------------
VARIABLES
  model,      \* the MeshModel object, as it is now
  mesh,       \* the MeshTorch built by MeshTorchLayer.__init__
  theta, phi, gamma,   \* the layer's raw parameters
  last_call,  \* the call completed last: kind, inputs, outcome, and for an
              \* inverse_transform of the previous transform's result, that
              \* transform's inputs
  perm,       \* a PermutationLayer under construction or built
  vert        \* a MeshVerticalLayer and the call made on it

vars == <<model, mesh, theta, phi, gamma, last_call, perm, vert>>

Lyr == [mesh |-> mesh, model |-> model, theta |-> theta, phi |-> phi, gamma |-> gamma]

NoCall == [kind |-> "none", inputs |-> <<>>, out |-> Ok(<<>>, <<>>), origin |-> <<>>]
NoPerm == [pc |-> "unused"]
NoVert == [pc |-> "unused"]
NoModel == [units |-> 0]
NoMesh == [units |-> 0]
NoLayer ==
  /\ model = NoModel
  /\ mesh = NoMesh
  /\ theta = <<>>
  /\ phi = <<>>
  /\ gamma = <<>>
  /\ last_call = NoCall

-----------------------------------------------------------------------------
(* Spec: a MeshTorchLayer is constructed and called *)
Constructed(models) ==
  /\ model \in models
  /\ mesh = MeshTorch(model)
  /\ \E k \in ParamKinds :
       /\ theta = CellAngles(k, model.units, model.num_layers, 1)
       /\ phi = CellAngles(k, model.units, model.num_layers, 2)
       /\ gamma = PathAngles(k, model.units)
  /\ last_call = NoCall
  /\ perm = NoPerm
  /\ vert = NoVert

Transform ==
  /\ last_call.kind = "none"
  /\ \E inputs \in Inputs(mesh.units) :
       last_call' = [kind |-> "transform", inputs |-> inputs,
                     out |-> MeshTransform(Lyr, inputs), origin |-> <<>>]
  /\ UNCHANGED <<model, mesh, theta, phi, gamma, perm, vert>>

InverseTransform ==
  /\ last_call.kind = "none"
  /\ \E outputs \in Inputs(mesh.units) :
       last_call' = [kind |-> "inverse_transform", inputs |-> outputs,
                     out |-> MeshInverseTransform(Lyr, outputs), origin |-> <<>>]
  /\ UNCHANGED <<model, mesh, theta, phi, gamma, perm, vert>>

(* inverse_transform called on what the transform just returned *)
InverseOfResult ==
  /\ last_call.kind = "transform"
  /\ last_call.out.err = ""
  /\ last_call' = [kind |-> "inverse_transform", inputs |-> last_call.out.val,
                   out |-> MeshInverseTransform(Lyr, last_call.out.val),
                   origin |-> last_call.inputs]
  /\ UNCHANGED <<model, mesh, theta, phi, gamma, perm, vert>>

Init == Constructed(Models)

Next == Transform \/ InverseTransform \/ InverseOfResult

Spec == Init /\ [][Next]_vars

(* SpecBroadcast: the same, over models whose error tensors may be scalars *)
InitBroadcast == Constructed(BroadcastModels)

SpecBroadcast == InitBroadcast /\ [][Next]_vars

-----------------------------------------------------------------------------
(* SpecMut: the model's fields and the raw parameters are replaced between *)
(* calls.  last_call is the call completed since the last change, if any   *)
MutModels ==
  {MeshModel(n, L, SINGLEMODE, FALSE, "ideal", "straight", "active") :
     n \in {2, MaxUnits}, L \in {MaxLayers}}

InitMut == Constructed(MutModels)

SetTheta ==
  /\ \E k \in ParamKinds : theta' = CellAngles(k, model.units, model.num_layers, 1)
  /\ theta' # theta
  /\ last_call' = NoCall
  /\ UNCHANGED <<model, mesh, phi, gamma, perm, vert>>

SetPhi ==
  /\ \E k \in ParamKinds : phi' = CellAngles(k, model.units, model.num_layers, 2)
  /\ phi' # phi
  /\ last_call' = NoCall
  /\ UNCHANGED <<model, mesh, theta, gamma, perm, vert>>

SetGamma ==
  /\ \E k \in ParamKinds : gamma' = PathAngles(k, model.units)
  /\ gamma' # gamma
  /\ last_call' = NoCall
  /\ UNCHANGED <<model, mesh, theta, phi, perm, vert>>

SetModel(new) ==
  /\ new # model
  /\ model' = new
  /\ last_call' = NoCall
  /\ UNCHANGED <<mesh, theta, phi, gamma, perm, vert>>

SetMask ==
  \E m \in MaskKinds :
    SetModel([model EXCEPT !.mask = MaskOf(m, model.units, model.num_layers)])

SetPermIdx ==
  \E k \in PermKinds :
    SetModel([model EXCEPT !.perm_idx = PermIdx(k, model.units, model.num_layers)])

SetErrorTensors ==
  \E k \in {"ideal", "lossy"} :
    LET t == ErrorTensors(k, model.units, model.num_layers)
    IN SetModel([model EXCEPT !.enn = t.enn, !.enp = t.enp, !.epn = t.epn, !.epp = t.epp])

SetBasis == \E b \in {BLOCH, SINGLEMODE} : SetModel([model EXCEPT !.basis = b])

SetHadamard == \E h \in BOOLEAN : SetModel([model EXCEPT !.hadamard = h])

NextMut ==
  \/ Transform \/ InverseTransform
  \/ SetTheta \/ SetPhi \/ SetGamma
  \/ SetMask \/ SetPermIdx \/ SetErrorTensors \/ SetBasis \/ SetHadamard

SpecMut == InitMut /\ [][NextMut]_vars

-----------------------------------------------------------------------------
(* SpecPerm: a PermutationLayer is constructed from an index array, then   *)
(* called at most twice in a row, the second call on the first's result    *)
PermInputs(n) == {Mixed(n)} \cup BasisInputs(n)

InitPerm ==
  /\ NoLayer
  /\ vert = NoVert
  /\ \E n \in 1 .. MaxUnits :
       \E permuted_indices \in [Idx(n) -> (-1) .. n] :
         perm = [pc |-> "loop",
                 permuted_indices |-> permuted_indices,
                 inv_permuted_indices |-> [i \in Idx(n) |-> 0],
                 idx |-> 0, inputs |-> <<>>, val |-> <<>>, calls |-> <<>>]

(* lines 68-69, one iteration; an index outside -n..n-1 raises IndexError *)
PermInitStep ==
  /\ perm.pc = "loop"
  /\ LET n == Size(perm.permuted_indices)
     IN IF PyIndex(n, perm.permuted_indices[perm.idx]) \notin Idx(n)
        THEN perm' = [perm EXCEPT !.pc = "IndexError"]
        ELSE perm' = [perm EXCEPT
                        !.inv_permuted_indices =
                           InvStep(perm.permuted_indices, perm.inv_permuted_indices, perm.idx),
                        !.idx = perm.idx + 1,
                        !.pc = IF perm.idx + 1 = n THEN "ready" ELSE "loop"]
  /\ UNCHANGED <<model, mesh, theta, phi, gamma, last_call, vert>>

PermArgs ==
  IF perm.calls = <<>> THEN PermInputs(Size(perm.permuted_indices)) ELSE {perm.val}

PermCallTransform ==
  /\ perm.pc = "ready"
  /\ Len(perm.calls) < 2
  /\ \E x \in PermArgs :
       perm' = [perm EXCEPT !.inputs = IF perm.calls = <<>> THEN x ELSE @,
                            !.val = PermTransform(perm, x),
                            !.calls = Append(@, "transform")]
  /\ UNCHANGED <<model, mesh, theta, phi, gamma, last_call, vert>>

PermCallInverse ==
  /\ perm.pc = "ready"
  /\ Len(perm.calls) < 2
  /\ \E x \in PermArgs :
       perm' = [perm EXCEPT !.inputs = IF perm.calls = <<>> THEN x ELSE @,
                            !.val = PermInverseTransform(perm, x),
                            !.calls = Append(@, "inverse_transform")]
  /\ UNCHANGED <<model, mesh, theta, phi, gamma, last_call, vert>>

NextPerm == PermInitStep \/ PermCallTransform \/ PermCallInverse

SpecPerm == InitPerm /\ [][NextPerm]_vars

-----------------------------------------------------------------------------
(* SpecVert: a MeshVerticalLayer is built from given tensors and called *)
Involutions(n) == {p \in [Idx(n) -> Idx(n)] : \A i \in Idx(n) : p[p[i]] = i}

(* two choices of (diag, off_diag) entry for a path *)
DiagChoice(c) == IF c = 0 THEN Cx(RHalf(ROne), RHalf(ROne)) ELSE Cx(RInt(2), RInt(-1))
OffDiagChoice(c) == IF c = 0 THEN Cx(RZero, RInt(-1)) ELSE Cx(RHalf(RInt(-1)), RInt(1))

OptionalPerms(n) == {<<>>, <<PermutationLayer([i \in Idx(n) |-> Mod(i + 1, n)])>>}

InitVert ==
  /\ NoLayer
  /\ perm = NoPerm
  /\ \E n \in 1 .. MaxUnits :
       \E pairwise_perm_idx \in Involutions(n), c \in [Idx(n) -> {0, 1}],
          left_perm \in OptionalPerms(n), right_perm \in OptionalPerms(n) :
         vert = [pc |-> "built",
                 layer |-> MeshVerticalLayer(pairwise_perm_idx,
                                             [i \in Idx(n) |-> DiagChoice(c[i])],
                                             [i \in Idx(n) |-> OffDiagChoice(c[(i + 1) % n])],
                                             right_perm, left_perm),
                 kind |-> "none", inputs |-> <<>>, out |-> Ok(<<>>, <<>>)]

VertCallTransform ==
  /\ vert.pc = "built"
  /\ \E x \in PermInputs(Size(vert.layer.diag)) :
       vert' = [vert EXCEPT !.pc = "called", !.kind = "transform", !.inputs = x,
                            !.out = VerticalTransform(vert.layer, Ok(x, <<>>))]
  /\ UNCHANGED <<model, mesh, theta, phi, gamma, last_call, perm>>

VertCallInverse ==
  /\ vert.pc = "built"
  /\ \E y \in PermInputs(Size(vert.layer.diag)) :
       vert' = [vert EXCEPT !.pc = "called", !.kind = "inverse_transform", !.inputs = y,
                            !.out = VerticalInverseTransform(vert.layer, Ok(y, <<>>))]
  /\ UNCHANGED <<model, mesh, theta, phi, gamma, last_call, perm>>

NextVert == VertCallTransform \/ VertCallInverse

SpecVert == InitVert /\ [][NextVert]_vars

-----------------------------------------------------------------------------
(* Properties of Spec *)

RECURSIVE CSumTo(_, _)
CSumTo(f, n) == IF n = 0 THEN CZero ELSE CAdd(CSumTo(f, n - 1), f[n - 1])

(* row j of the matrix of a layer's coupling: the image of basis vector j *)
CouplingRows(layer) ==
  [j \in Idx(Size(layer.diag)) |-> Couple(layer, E(Size(layer.diag), j))]

(* A * A^H = I *)
IsUnitary(layer) ==
  LET n == Size(layer.diag)
      A == CouplingRows(layer)
  IN \A j, k \in Idx(n) :
       CSumTo([i \in Idx(n) |-> CMul(A[j][i], CConj(A[k][i]))], n)
         = IF j = k THEN COne ELSE CZero

(* every layer the call builds from the current values is lossless *)
Lossless(lyr) ==
  /\ ~MeshLayersRaises(lyr.mesh, CallPhases(lyr))
  /\ \A l \in Idx(lyr.mesh.num_layers) :
       IsUnitary(mesh_layers(lyr.mesh, CallModel(lyr).hadamard, CallPhases(lyr))[l])

(* the last call was inverse_transform(transform(x)) for an x of length units *)
RoundTrip ==
  /\ last_call.kind = "inverse_transform"
  /\ last_call.origin # <<>>
  /\ Size(last_call.origin) = mesh.units

(* C1, as claimed: for every model and parameter set, lossless or not, and *)
(* every input x of length units, inverse_transform(transform(x)) = x      *)
C1_RoundTripAlways ==
  RoundTrip => last_call.out.err = "" /\ last_call.out.val = last_call.origin

(* C1, amended: when every layer's coupling is lossless (unitary), and for *)
(* every input x of length units, inverse_transform(transform(x)) = x      *)
C1_RoundTripLossless ==
  (RoundTrip /\ Lossless(Lyr)) =>
    last_call.out.err = "" /\ last_call.out.val = last_call.origin

C1_Witness ==
  /\ RoundTrip
  /\ mesh.units >= 2
  /\ mesh.num_layers >= 2
  /\ Lossless(Lyr)
  /\ last_call.inputs # last_call.origin
  /\ last_call.out.val = last_call.origin

-----------------------------------------------------------------------------
(* the operations of a trace, without the values they produced *)
Ops(trace) == [p \in DOMAIN trace |-> <<trace[p].op, trace[p].arg>>]

(* phase, perm_idx[0], then coupling k and perm_idx[k+1] for k = 0..L-1 *)
ExpectedForward(lyr) ==
  LET L == lyr.mesh.num_layers
      ph == CallPhases(lyr)
      d == DiagLayers(lyr.mesh, CallModel(lyr).hadamard, ph)
      o == OffDiagLayers(lyr.mesh, CallModel(lyr).hadamard, ph)
  IN [p \in 1 .. (2 * L + 2) |->
        IF p = 1 THEN <<"phase", ph.input_phase_shift_layer>>
        ELSE IF p = 2 THEN <<"perm", lyr.model.perm_idx[0]>>
        ELSE IF p % 2 = 1 THEN <<"couple", <<d[(p - 3) \div 2], o[(p - 3) \div 2]>>>>
        ELSE <<"perm", lyr.model.perm_idx[(p - 2) \div 2]>>]

InverseOp(op) ==
  CASE op = "phase" -> "phase_conj"
    [] op = "perm" -> "perm_inv"
    [] op = "couple" -> "couple_adj"

(* the same operations, last first, each replaced by its inverse *)
ExpectedInverse(lyr) ==
  LET f == ExpectedForward(lyr)
      n == 2 * lyr.mesh.num_layers + 2
  IN [p \in 1 .. n |-> <<InverseOp(f[n + 1 - p][1]), f[n + 1 - p][2]>>]

(* C9: a transform that returns applies the input phase shift, perm_idx[0], *)
(* then for k = 0..L-1 the coupling of layer k followed by perm_idx[k+1],   *)
(* each permutation once; an inverse_transform that returns applies the     *)
(* inverses of the same operations in the reverse order                     *)
C9_OperationOrder ==
  /\ (last_call.kind = "transform" /\ last_call.out.err = "")
       => Ops(last_call.out.trace) = ExpectedForward(Lyr)
  /\ (last_call.kind = "inverse_transform" /\ last_call.out.err = "")
       => Ops(last_call.out.trace) = ExpectedInverse(Lyr)

C9_Witness ==
  /\ last_call.kind = "inverse_transform"
  /\ last_call.origin # <<>>
  /\ last_call.out.err = ""
  /\ mesh.num_layers >= 2
  /\ mesh.units >= 3
  /\ model.perm_idx[0] # model.perm_idx[1]
  /\ Len(last_call.out.trace) = 2 * mesh.num_layers + 2

(* C6, as claimed: a call whose input's last axis is not units long fails *)
C6_SizeMismatchFails ==
  (last_call.kind # "none" /\ Size(last_call.inputs) # mesh.units)
    => last_call.out.err # ""

(* C10, as claimed: with num_layers = 0 a call on an input of length units  *)
(* returns the input times the input phase-shift layer (transform) or its   *)
(* conjugate (inverse_transform)                                            *)
C10_ZeroLayersIsPhaseOnly ==
  (model.num_layers = 0 /\ last_call.kind # "none" /\ Size(last_call.inputs) = mesh.units)
    => /\ last_call.out.err = ""
       /\ last_call.out.val =
            cc_mul(last_call.inputs,
                   IF last_call.kind = "transform"
                   THEN CallPhases(Lyr).input_phase_shift_layer
                   ELSE conj_t(CallPhases(Lyr).input_phase_shift_layer))

-----------------------------------------------------------------------------
(* Properties of SpecBroadcast *)

(* a transform on an odd number of paths has returned *)
IdleCase ==
  /\ last_call.kind = "transform"
  /\ last_call.out.err = ""
  /\ mesh.units % 2 = 1

CoupleSteps == {p \in DOMAIN last_call.out.trace : last_call.out.trace[p].op = "couple"}

IdleDiagIsOne ==
  \A p \in CoupleSteps : last_call.out.trace[p].arg[1][mesh.units - 1] = COne

(* the last path's value after the coupling is its value before it: the    *)
(* operation before a coupling is the layer's left permutation or the      *)
(* previous layer's right permutation                                      *)
IdlePathKept ==
  \A p \in CoupleSteps :
    last_call.out.trace[p].val[mesh.units - 1] = last_call.out.trace[p - 1].val[mesh.units - 1]

(* enp and epn vanish on the last two paths of every layer *)
IdleRowsClear ==
  \A l \in Idx(mesh.num_layers) :
    \A i \in {mesh.units - 1, Mod(mesh.units - 2, mesh.units)} :
      mesh.enp[i][l] = RZero /\ mesh.epn[i][l] = RZero

(* C5, as claimed: with units odd, every layer's last diagonal entry is    *)
(* 1+0i and the coupling leaves the last path's value unchanged, for every *)
(* input, parameter and error-tensor choice                                *)
C5_IdlePathAlways == IdleCase => (IdleDiagIsOne /\ IdlePathKept)

(* C5, amended: with units odd, every layer's last diagonal entry is 1+0i, *)
(* and the coupling leaves the last path's value unchanged whenever the    *)
(* enp and epn error tensors are zero on the last two paths                *)
C5_IdlePathStripe ==
  /\ IdleCase => IdleDiagIsOne
  /\ (IdleCase /\ IdleRowsClear) => IdlePathKept

C5_Witness ==
  /\ IdleCase
  /\ IdleRowsClear
  /\ mesh.units >= 3
  /\ mesh.num_layers >= 2
  /\ IdleDiagIsOne
  /\ IdlePathKept
  /\ \E p \in CoupleSteps :
       /\ last_call.out.trace[p].val[mesh.units - 1] # CZero
       /\ last_call.out.trace[p].val # last_call.out.trace[p - 1].val

-----------------------------------------------------------------------------
(* Properties of SpecMut *)

SameResult(a, b) == a.err = b.err /\ a.val = b.val

CallOn(lyr) ==
  IF last_call.kind = "transform"
  THEN MeshTransform(lyr, last_call.inputs)
  ELSE MeshInverseTransform(lyr, last_call.inputs)

(* a MeshTorchLayer constructed now, holding the current values *)
Fresh == MeshTorchLayer(model, theta, phi, gamma)

(* the model's permutations and error tensors are those the mesh was built from *)
WiringAsBuilt ==
  /\ model.perm_idx = mesh.model.perm_idx
  /\ model.enn = mesh.model.enn /\ model.enp = mesh.model.enp
  /\ model.epn = mesh.model.epn /\ model.epp = mesh.model.epp

(* C8, as claimed: whatever was replaced before it, a call returns what a  *)
(* freshly constructed layer holding the current values returns            *)
C8_NothingStale ==
  last_call.kind # "none" => SameResult(last_call.out, CallOn(Fresh))

(* C8, amended: after any replacements of theta, phi, gamma, mask, basis   *)
(* and hadamard, a call returns what a freshly constructed layer holding   *)
(* the current values returns; perm_idx and the error tensors are read     *)
(* once, by the constructor                                                *)
C8_ParametersNotStale ==
  (last_call.kind # "none" /\ WiringAsBuilt) => SameResult(last_call.out, CallOn(Fresh))

C8_Witness ==
  /\ last_call.kind = "transform"
  /\ last_call.out.err = ""
  /\ WiringAsBuilt
  /\ model.mask # mesh.model.mask
  /\ model.basis # mesh.model.basis
  /\ model.hadamard # mesh.model.hadamard
  /\ theta = CellAngles("graded", model.units, model.num_layers, 1)
  /\ gamma = PathAngles("quarter", model.units)
  /\ SameResult(last_call.out, CallOn(Fresh))

(* the cells whose mask entry is 0 *)
MaskedCells ==
  {c \in Idx(model.num_layers) \X Idx(model.units \div 2) : model.mask[c[1]][c[2]] = 0}

(* the layer with the raw theta and phi of one cell turned by dt and dp *)
Turned(c, dt, dp) ==
  [Lyr EXCEPT !.theta[c[1]][c[2]] = @ + dt, !.phi[c[1]][c[2]] = @ + dp]

(* C4: a call returns the same result when the raw theta, the raw phi or   *)
(* both of a masked cell are changed                                       *)
C4_MaskedCellsIgnored ==
  last_call.kind # "none" =>
    \A c \in MaskedCells :
      \A d \in {<<2, 0>>, <<0, 2>>, <<2, 2>>} :
        SameResult(last_call.out, CallOn(Turned(c, d[1], d[2])))

C4_Witness ==
  /\ last_call.kind = "transform"
  /\ last_call.out.err = ""
  /\ ~model.hadamard
  /\ \E c \in MaskedCells : theta[c[1]][c[2]] # 0 /\ theta[c[1]][c[2]] # PI
  /\ \E l \in Idx(model.num_layers), j \in Idx(model.units \div 2) : model.mask[l][j] = 1
  /\ \A c \in MaskedCells : SameResult(last_call.out, CallOn(Turned(c, 2, 2)))

-----------------------------------------------------------------------------
(* Properties of SpecPerm *)

(* C3: for a permutation p, inverse_transform after transform, and         *)
(* transform after inverse_transform, return the vector they were given    *)
C3_PermutationRoundTrip ==
  ( /\ perm.pc = "ready"
    /\ IsPermutation(perm.permuted_indices)
    /\ perm.calls \in {<<"transform", "inverse_transform">>,
                       <<"inverse_transform", "transform">>} )
    => perm.val = perm.inputs

C3_Witness ==
  /\ perm.pc = "ready"
  /\ IsPermutation(perm.permuted_indices)
  /\ \E i \in DOMAIN perm.permuted_indices :
       perm.permuted_indices[perm.permuted_indices[i]] # i
  /\ perm.calls = <<"transform", "inverse_transform">>
  /\ perm.inputs = Mixed(Size(perm.permuted_indices))
  /\ perm.val = perm.inputs

(* C7, as claimed: a layer is only ever built from a bijection on 0..N-1,  *)
(* and its inv_permuted_indices is the inverse of its permuted_indices     *)
C7_OnlyBijectionsBuilt ==
  perm.pc = "ready" =>
    /\ IsPermutation(perm.permuted_indices)
    /\ \A i \in DOMAIN perm.permuted_indices :
         perm.inv_permuted_indices[perm.permuted_indices[i]] = i

-----------------------------------------------------------------------------
(* Properties of SpecVert *)

(* row j of the matrix A of the layer's transform: the image of basis vector j *)
TransformRows(layer) ==
  [j \in Idx(Size(layer.diag)) |->
     VerticalTransform(layer, Ok(E(Size(layer.diag), j), <<>>)).val]

(* C2: transform is x -> x*A, and inverse_transform is y -> y*A^H, where   *)
(* A^H[j][i] is the conjugate of A[i][j]                                   *)
C2_InverseIsAdjoint ==
  vert.pc = "called" =>
    LET n == Size(vert.layer.diag)
        A == TransformRows(vert.layer)
    IN \A i \in Idx(n) :
         vert.out.val[i] =
           IF vert.kind = "transform"
           THEN CSumTo([j \in Idx(n) |-> CMul(vert.inputs[j], A[j][i])], n)
           ELSE CSumTo([j \in Idx(n) |-> CMul(vert.inputs[j], CConj(A[i][j]))], n)

C2_Witness ==
  /\ vert.pc = "called"
  /\ vert.kind = "inverse_transform"
  /\ Size(vert.layer.diag) >= 3
  /\ vert.layer.left_perm # <<>>
  /\ vert.layer.right_perm # <<>>
  /\ vert.inputs = Mixed(Size(vert.layer.diag))
  /\ \E i \in Idx(Size(vert.layer.diag)) : vert.layer.pairwise_perm_idx[i] # i
  /\ vert.layer.off_diag[0] # vert.layer.off_diag[1]
  /\ vert.out.err = ""

====
